---------------------------- MODULE Spec2Model ----------------------------
(***************************************************************************)
(* Model of src/src/match_fish_diversity.py: the coordinate parser, the    *)
(* basin locator, the per-basin diversity aggregation, the pairwise        *)
(* Jaccard metrics and the pipeline (main) that composes them.             *)
(*                                                                         *)
(* Representation choices                                                  *)
(*   - a Python str is a sequence of one-character strings; the degree     *)
(*     sign is the character Deg;                                          *)
(*   - a float read from text is a fixed-point integer in units of         *)
(*     10^-FracDigits degrees (exact for the magnitudes used here);        *)
(*   - a ratio of two ints (the Jaccard similarity) is an exact fraction   *)
(*     [num, den]; the rounding of the IEEE division is not modelled;      *)
(*   - a basin geometry is an axis-parallel rectangle with integer-degree  *)
(*     corners; contains() is shapely's (strict interior), distance() is   *)
(*     the planar distance to the closed rectangle, compared by squares;   *)
(*   - a missing species name is the single value NaN (pandas keeps the    *)
(*     one numpy nan object in an object column).                          *)
(***************************************************************************)
EXTENDS Integers, Sequences, FiniteSets, TLC

VARIABLES
    ibt_df,             \* rows of Top_20_IBT_Projects_with_Coordinates.csv
    basins_gdf,         \* rows of the basin shapefile, in dataset order
    occ_df,             \* rows of Occurrence_Table.csv
    pc,                 \* position of main
    projects,           \* the list built by parse_ibt_coordinates
    cur,                \* locals of the current loop iteration
    results,            \* main's list of result rows
    stdout,             \* the warning lines printed by the basin locator
    output_file,        \* the rows written to IBT_Fish_Diversity_Results.csv
    log,                \* history: <<stage, position of the project>>
    call,               \* a stand-alone call of one function: its arguments
    ret                 \* ... and what it returned or raised

vars == <<ibt_df, basins_gdf, occ_df, pc, projects, cur, results, stdout,
          output_file, log, call, ret>>

-----------------------------------------------------------------------------
(* Bounds *)

\* decimal digits kept after the point by the fixed-point floats
FracDigits == 1
\* most rows of the project table
MaxProjects == 2
\* most polygons of a basin set in a stand-alone lookup
MaxBasins == 2
\* most rows of an occurrence table in a stand-alone aggregation
MaxOcc == 3

RECURSIVE Pow10(_)
Pow10(n) == IF n = 0 THEN 1 ELSE 10 * Pow10(n - 1)

Scale == Pow10(FracDigits)

-----------------------------------------------------------------------------
(* Strings and the two regular expressions of parse_coordinate_string *)

Deg == "deg"
None == "None"
NaN == "NaN"

Digits == {"0", "1", "2", "3", "4", "5", "6", "7", "8", "9"}

IsDigit(c) == c \in Digits

IsSpace(c) == c = " "

DigitVal(c) ==
    CASE c = "0" -> 0 [] c = "1" -> 1 [] c = "2" -> 2 [] c = "3" -> 3
      [] c = "4" -> 4 [] c = "5" -> 5 [] c = "6" -> 6 [] c = "7" -> 7
      [] c = "8" -> 8 [] c = "9" -> 9

\* \d+ and \d* are greedy: the end (exclusive) of the run of digits from i
DigitRunEnd(s, i) ==
    CHOOSE k \in i..(Len(s) + 1) :
        /\ \A m \in i..(k - 1) : IsDigit(s[m])
        /\ k = Len(s) + 1 \/ ~IsDigit(s[k])

\* \s* is greedy: the end (exclusive) of the run of white space from i
SpaceRunEnd(s, i) ==
    CHOOSE k \in i..(Len(s) + 1) :
        /\ \A m \in i..(k - 1) : IsSpace(s[m])
        /\ k = Len(s) + 1 \/ ~IsSpace(s[k])

\* (\d+\.?\d*)\s*deg([hemis]) anchored at i. The classes \d, \. , \s and the
\* degree sign are disjoint, so the greedy parse is the only parse.
MatchAt(s, i, hemis) ==
    LET a == DigitRunEnd(s, i)
        b == IF a <= Len(s) /\ s[a] = "." THEN a + 1 ELSE a
        c == DigitRunEnd(s, b)
        d == SpaceRunEnd(s, c)
    IN  IF a > i /\ d + 1 <= Len(s) /\ s[d] = Deg /\ s[d + 1] \in hemis
        THEN [matched |-> TRUE, group1 |-> SubSeq(s, i, c - 1), group2 |-> s[d + 1]]
        ELSE [matched |-> FALSE, group1 |-> <<>>, group2 |-> None]

\* re.search: the match at the leftmost position that has one
re_search(s, hemis) ==
    LET starts == {i \in 1..Len(s) : MatchAt(s, i, hemis).matched}
    IN  IF starts = {}
        THEN [matched |-> FALSE, group1 |-> <<>>, group2 |-> None]
        ELSE MatchAt(s, CHOOSE i \in starts : \A j \in starts : i <= j, hemis)

RECURSIVE DigitsValue(_)
DigitsValue(ds) ==
    IF ds = <<>> THEN 0
    ELSE 10 * DigitsValue(SubSeq(ds, 1, Len(ds) - 1)) + DigitVal(ds[Len(ds)])

\* float() of a matched magnitude "ddd", "ddd." or "ddd.ddd", in 1/Scale units
float(g) ==
    LET dots == {k \in 1..Len(g) : g[k] = "."}
        dot  == IF dots = {} THEN Len(g) + 1 ELSE CHOOSE k \in dots : TRUE
        int  == SubSeq(g, 1, dot - 1)
        frac == SubSeq(g, dot + 1, Len(g))
    IN  DigitsValue(int) * Scale
        + (DigitsValue(frac) * Scale) \div Pow10(Len(frac))

lat_match(coord_str) == re_search(coord_str, {"N", "S"})

lon_match(coord_str) == re_search(coord_str, {"E", "W"})

\* the sign applied to a magnitude by its hemisphere letter
Signed(m, negative) == IF m.group2 = negative THEN 0 - float(m.group1) ELSE float(m.group1)

parse_coordinate_string(coord_str) ==
    IF ~lat_match(coord_str).matched \/ ~lon_match(coord_str).matched
    THEN [raised |-> "ValueError", lat |-> 0, lon |-> 0]
    ELSE [raised |-> None,
          lat |-> Signed(lat_match(coord_str), "S"),
          lon |-> Signed(lon_match(coord_str), "W")]

-----------------------------------------------------------------------------
(* BasinLocator: find_basin_by_coordinates *)

\* shapely's Point(x, y), built as Point(lon, lat)
Point(lon, lat) == [x |-> lon, y |-> lat]

\* geometry.contains(point): the point lies in the interior of the rectangle
\* (a point on the boundary is not contained)
contains(geometry, point) ==
    /\ geometry.x1 * Scale < point.x /\ point.x < geometry.x2 * Scale
    /\ geometry.y1 * Scale < point.y /\ point.y < geometry.y2 * Scale

Max3(a, b, c) ==
    IF a >= b /\ a >= c THEN a ELSE IF b >= c THEN b ELSE c

\* geometry.distance(point), squared: 0 inside and on the boundary
distance(geometry, point) ==
    LET dx == Max3(geometry.x1 * Scale - point.x, 0, point.x - geometry.x2 * Scale)
        dy == Max3(geometry.y1 * Scale - point.y, 0, point.y - geometry.y2 * Scale)
    IN  dx * dx + dy * dy

\* basins_gdf[basins_gdf.geometry.contains(point)]: the positions kept by the
\* boolean mask, in dataset order
containing_basins(gdf, point) ==
    {k \in 1..Len(gdf) : contains(gdf[k].geometry, point)}

\* mutant: the last row of the selection
iloc_last(positions) == CHOOSE k \in positions : \A m \in positions : k >= m

\* .iloc[0] of a non-empty selection: its first row in dataset order
iloc0(positions) == CHOOSE k \in positions : \A m \in positions : k <= m

\* mutant: the first position holding the maximum
idxmax(distances) ==
    CHOOSE k \in 1..Len(distances) :
        /\ \A m \in 1..Len(distances) : distances[k] >= distances[m]
        /\ \A m \in 1..(k - 1) : distances[m] < distances[k]

\* distances.idxmin(): the first position holding the minimum
idxmin(distances) ==
    CHOOSE k \in 1..Len(distances) :
        /\ \A m \in 1..Len(distances) : distances[k] <= distances[m]
        /\ \A m \in 1..(k - 1) : distances[m] > distances[k]

\* mutant: what the docstring says, None when no polygon contains the point
find_basin_or_none(lat, lon, gdf) ==
    LET containing == containing_basins(gdf, Point(lon, lat))
    IN  IF containing # {}
        THEN [raised |-> None, value |-> gdf[iloc0(containing)].BasinName,
              warning |-> <<>>]
        ELSE [raised |-> None, value |-> None, warning |-> <<>>]

find_basin_by_coordinates(lat, lon, gdf) ==
    LET point == Point(lon, lat)
        containing == containing_basins(gdf, point)
        distances == [k \in 1..Len(gdf) |-> distance(gdf[k].geometry, point)]
    IN  IF containing # {}
        THEN [raised |-> None, value |-> gdf[iloc0(containing)].BasinName,
              warning |-> <<>>]
        ELSE IF Len(gdf) = 0
        THEN \* idxmin of an empty Series raises ValueError
             [raised |-> "ValueError", value |-> None, warning |-> <<>>]
        ELSE [raised |-> None, value |-> gdf[idxmin(distances)].BasinName,
              warning |-> <<[lat |-> lat, lon |-> lon,
                             nearest_basin |-> gdf[idxmin(distances)].BasinName,
                             nearest_distance |-> distances[idxmin(distances)]]>>]

-----------------------------------------------------------------------------
(* DiversityAggregator: get_basin_fish_diversity *)

Range(s) == {s[k] : k \in 1..Len(s)}

\* occ_df[occ_df[column] == value]
Filter(df, column, value) == SelectSeq(df, LAMBDA r : r[column] = value)

\* Series.unique().tolist(): the values in order of first appearance, a
\* missing value included (once)
unique(df) ==
    LET first == {k \in 1..Len(df) :
                    \A m \in 1..(k - 1) : df[m].SpeciesName # df[k].SpeciesName}
        RECURSIVE take(_)
        take(k) == IF k > Len(df) THEN <<>>
                   ELSE IF k \in first THEN <<df[k].SpeciesName>> \o take(k + 1)
                   ELSE take(k + 1)
    IN  take(1)

\* Series.nunique(): dropna=True, a missing value is not counted
nunique(df) == Cardinality({df[k].SpeciesName : k \in 1..Len(df)} \ {NaN})

get_basin_fish_diversity(basin_name, occ) ==
    LET basin_fish == Filter(occ, "BasinName", basin_name)
        native_fish == Filter(basin_fish, "Status", "native")
        exotic_fish == Filter(basin_fish, "Status", "exotic")
    IN  IF Len(basin_fish) = 0
        THEN [species_count |-> 0, native_species_count |-> 0,
              exotic_species_count |-> 0, species_list |-> <<>>]
        ELSE [species_count |-> nunique(basin_fish),
              native_species_count |-> nunique(native_fish),
              exotic_species_count |-> nunique(exotic_fish),
              species_list |-> unique(basin_fish)]

-----------------------------------------------------------------------------
(* PairwiseMetrics: lines 157-168 and 185-186 of main *)

\* an exact ratio n / d
Ratio(n, d) == [num |-> n, den |-> d]

Zero == Ratio(0, 1)

\* set(species_list)
set(species_list) == Range(species_list)

intersection(sender_species, receiver_species) ==
    Cardinality(sender_species \cap receiver_species)

\* mutant: the sizes are added, the shared species counted twice
union_counts_shared_twice(sender_species, receiver_species) ==
    Cardinality(sender_species) + Cardinality(receiver_species)

union(sender_species, receiver_species) ==
    Cardinality(sender_species \cup receiver_species)

jaccard_similarity(sender_species, receiver_species) ==
    IF sender_species = {} /\ receiver_species = {}
    THEN Zero
    ELSE IF union(sender_species, receiver_species) > 0
    THEN Ratio(intersection(sender_species, receiver_species),
               union(sender_species, receiver_species))
    ELSE Zero

\* 1 - jaccard_similarity
OneMinus(similarity) == Ratio(similarity.den - similarity.num, similarity.den)

\* mutant: the special case of two empty sets is forgotten
jaccard_dissimilarity_no_special_case(sender_species, receiver_species) ==
    OneMinus(jaccard_similarity(sender_species, receiver_species))

jaccard_dissimilarity(sender_species, receiver_species) ==
    IF sender_species = {} /\ receiver_species = {}
    THEN Zero
    ELSE OneMinus(jaccard_similarity(sender_species, receiver_species))

-----------------------------------------------------------------------------
(* Inputs *)

SeqsUpTo(S, n) == UNION {[1..k -> S] : k \in 0..n}

\* magnitudes as written in a coordinate text: well formed ("25.5", "95",
\* "200", "7."), malformed ("1.2.3", "-10", "x") and absent
Magnitudes ==
    { <<"2", "5", ".", "5">>, <<"9", "5">>, <<"2", "0", "0">>, <<"7", ".">>,
      <<"1", ".", "2", ".", "3">>, <<"-", "1", "0">>, <<"x">>, <<>> }

Hemispheres == {"N", "S", "E", "W"}

\* a magnitude, optional white space, the degree sign and a hemisphere letter;
\* <<>> is a text without the token
Tokens ==
    { m \o w \o <<Deg, h>> : m \in Magnitudes, w \in {<<>>, <<" ">>},
                             h \in Hemispheres } \cup {<<>>}

\* a place name (ignored by the parser), then two tokens in either order
CoordStrings ==
    { p \o t1 \o <<" ">> \o t2 :
        p \in {<<>>, <<"G", "9", " ">>}, t1 \in Tokens, t2 \in Tokens }

Rect(x1, y1, x2, y2) == [x1 |-> x1, y1 |-> y1, x2 |-> x2, y2 |-> y2]

\* three basins, in degrees: the first two overlap on (2,4) x (2,4)
Geometries == {Rect(0, 0, 4, 4), Rect(2, 2, 6, 6), Rect(8, 0, 10, 2)}

BasinNames == {"Ganges", "Nile"}

BasinRows == [BasinName : BasinNames, geometry : Geometries]

\* latitudes and longitudes of the points looked up, in degrees
PointLats == {1, 3, 4}

PointLons == {1, 3, 4, 7, 9}

OccRows ==
    [BasinName : {"Ganges", "ganges"}, Status : {"native", "exotic", "unknown"},
     SpeciesName : {"A", "B", NaN}]

Occ(basin, status, species) ==
    [BasinName |-> basin, Status |-> status, SpeciesName |-> species]

\* the occurrence tables of the pipeline runs
PipelineOccs ==
    { <<>>,
      <<Occ("Ganges", "native", "A"), Occ("Ganges", "native", "B"),
        Occ("Ganges", "exotic", "C"), Occ("Nile", "native", "B"),
        Occ("Nile", "native", "C"), Occ("Nile", "exotic", "D")>>,
      <<Occ("Ganges", "native", "A"), Occ("Ganges", "exotic", "A"),
        Occ("Ganges", "unknown", NaN), Occ("Nile", "native", NaN)>>,
      <<Occ("Ganges", "native", "A")>> }

\* the basin sets of the pipeline runs
PipelineBasins ==
    { <<>>,
      <<[BasinName |-> "Ganges", geometry |-> Rect(0, 0, 4, 4)]>>,
      <<[BasinName |-> "Ganges", geometry |-> Rect(0, 0, 4, 4)],
        [BasinName |-> "Nile", geometry |-> Rect(2, 2, 6, 6)]>> }

\* "1.5degN 1.5degE": inside the first basin only
TextInGanges == <<"1", ".", "5", Deg, "N", " ", "1", ".", "5", Deg, "E">>

\* "G 5 degN 3 degE": inside the second basin only
TextInNile == <<"G", " ", "5", " ", Deg, "N", " ", "3", " ", Deg, "E">>

\* "7degS 9degW": in no basin
TextOutside == <<"7", Deg, "S", " ", "9", Deg, "W">>

\* "x degN 3 degE": no latitude
TextBad == <<"x", " ", Deg, "N", " ", "3", " ", Deg, "E">>

\* the rows of the project table: '#', 'Basin Pair', 'Project (Country)',
\* 'Design Flow', 'Sender Coordinates', 'Receiver Coordinates'
ProjectRows ==
    { [rank |-> m[1], basin_pair |-> m[2], project |-> m[3], design_flow |-> m[4],
       sender_coords |-> c[1], receiver_coords |-> c[2]] :
        m \in { <<1, "Ganges-Cauvery", "NRLP (India)", "~ 200">>,
                <<2, "Nile-Sinai", "Toshka (Egypt)", "5.5">> },
        c \in { <<TextInGanges, TextInNile>>, <<TextInNile, TextOutside>>,
                <<TextInNile, TextInNile>>,
                <<TextBad, TextInGanges>>, <<TextInGanges, TextBad>> } }

-----------------------------------------------------------------------------
(* The pipeline: parse_ibt_coordinates and main *)

\* mutant: the rows are visited last to first
iterrows_reversed(df) == [k \in 1..Len(df) |-> Len(df) + 1 - k]

\* DataFrame.iterrows(): the positions of the rows in the order visited
iterrows(df) == [k \in 1..Len(df) |-> k]

EmptyDiversity ==
    [species_count |-> 0, native_species_count |-> 0,
     exotic_species_count |-> 0, species_list |-> <<>>]

\* the locals of the two loops before their first assignment
NoLocals ==
    [i |-> 1, sender_lat |-> 0, sender_lon |-> 0,
     sender_basin |-> None, receiver_basin |-> None,
     sender_diversity |-> EmptyDiversity, receiver_diversity |-> EmptyDiversity,
     jaccard_similarity |-> Zero, jaccard_dissimilarity |-> Zero]

\* the dict appended by parse_ibt_coordinates; input_pos is history (the
\* position of the row in the project table), not a column
project_of(row, pos, sender_lat, sender_lon, receiver_lat, receiver_lon) ==
    [rank |-> row.rank, basin_pair |-> row.basin_pair, project |-> row.project,
     design_flow |-> row.design_flow,
     sender_lat |-> sender_lat, sender_lon |-> sender_lon,
     receiver_lat |-> receiver_lat, receiver_lon |-> receiver_lon,
     input_pos |-> pos]

\* mutant: the rank is the loop counter, not the project's own rank
result_of_rank_from_counter(project, c) ==
    [rank |-> c.i, basin_pair |-> project.basin_pair,
     project |-> project.project, design_flow |-> project.design_flow,
     sender_basin |-> c.sender_basin, receiver_basin |-> c.receiver_basin,
     sender_species_count |-> c.sender_diversity.species_count,
     sender_native_count |-> c.sender_diversity.native_species_count,
     sender_exotic_count |-> c.sender_diversity.exotic_species_count,
     receiver_species_count |-> c.receiver_diversity.species_count,
     receiver_native_count |-> c.receiver_diversity.native_species_count,
     receiver_exotic_count |-> c.receiver_diversity.exotic_species_count,
     jaccard_similarity |-> c.jaccard_similarity,
     jaccard_dissimilarity |-> c.jaccard_dissimilarity,
     shared_species_count |->
        Cardinality(set(c.sender_diversity.species_list)
                    \cap set(c.receiver_diversity.species_list)),
     total_unique_species |->
        Cardinality(set(c.sender_diversity.species_list)
                    \cup set(c.receiver_diversity.species_list))]

\* the dict appended to results by main
result_of(project, c) ==
    [rank |-> project.rank, basin_pair |-> project.basin_pair,
     project |-> project.project, design_flow |-> project.design_flow,
     sender_basin |-> c.sender_basin, receiver_basin |-> c.receiver_basin,
     sender_species_count |-> c.sender_diversity.species_count,
     sender_native_count |-> c.sender_diversity.native_species_count,
     sender_exotic_count |-> c.sender_diversity.exotic_species_count,
     receiver_species_count |-> c.receiver_diversity.species_count,
     receiver_native_count |-> c.receiver_diversity.native_species_count,
     receiver_exotic_count |-> c.receiver_diversity.exotic_species_count,
     jaccard_similarity |-> c.jaccard_similarity,
     jaccard_dissimilarity |-> c.jaccard_dissimilarity,
     shared_species_count |->
        intersection(set(c.sender_diversity.species_list),
                     set(c.receiver_diversity.species_list)),
     total_unique_species |->
        union(set(c.sender_diversity.species_list),
              set(c.receiver_diversity.species_list))]

NoCall == [fn |-> None]

Pending == [status |-> "pending", value |-> None]

\* main after load_csv_tables and load_shapefile, about to parse the projects
Init ==
    /\ ibt_df \in SeqsUpTo(ProjectRows, MaxProjects)
    /\ basins_gdf \in PipelineBasins
    /\ occ_df \in PipelineOccs
    /\ pc = "parse_sender"
    /\ projects = <<>>
    /\ cur = NoLocals
    /\ results = <<>>
    /\ stdout = <<>>
    /\ output_file = [written |-> FALSE, rows |-> <<>>]
    /\ log = <<>>
    /\ call = NoCall
    /\ ret = Pending

\* the row visited by the loop of parse_ibt_coordinates
Row == ibt_df[iterrows(ibt_df)[cur.i]]

\* the project visited by the loop of main
Project == projects[iterrows(projects)[cur.i]]

\* mutant: the error of a sender text is swallowed and the row skipped
ParseSender_skipping_bad_row ==
    /\ pc = "parse_sender"
    /\ cur.i <= Len(ibt_df)
    /\ LET r == parse_coordinate_string(Row.sender_coords)
       IN  /\ pc' = IF r.raised # None THEN "parse_sender" ELSE "parse_receiver"
           /\ cur' = IF r.raised # None THEN [cur EXCEPT !.i = cur.i + 1]
                     ELSE [cur EXCEPT !.sender_lat = r.lat, !.sender_lon = r.lon]
    /\ log' = Append(log, <<"parse_sender", iterrows(ibt_df)[cur.i]>>)
    /\ UNCHANGED <<ibt_df, basins_gdf, occ_df, projects, results, stdout,
                   output_file, call, ret>>

\* line 34: sender_lat, sender_lon = parse_coordinate_string(sender_coords)
ParseSender ==
    /\ pc = "parse_sender"
    /\ cur.i <= Len(ibt_df)
    /\ LET r == parse_coordinate_string(Row.sender_coords)
       IN  /\ pc' = IF r.raised # None THEN "aborted" ELSE "parse_receiver"
           /\ cur' = IF r.raised # None THEN cur
                     ELSE [cur EXCEPT !.sender_lat = r.lat, !.sender_lon = r.lon]
    /\ log' = Append(log, <<"parse_sender", iterrows(ibt_df)[cur.i]>>)
    /\ UNCHANGED <<ibt_df, basins_gdf, occ_df, projects, results, stdout,
                   output_file, call, ret>>

\* lines 35-46: the receiver is parsed and the project appended
ParseReceiver ==
    /\ pc = "parse_receiver"
    /\ LET r == parse_coordinate_string(Row.receiver_coords)
       IN  /\ pc' = IF r.raised # None THEN "aborted" ELSE "parse_sender"
           /\ projects' =
                IF r.raised # None THEN projects
                ELSE Append(projects,
                            project_of(Row, iterrows(ibt_df)[cur.i],
                                       cur.sender_lat, cur.sender_lon, r.lat, r.lon))
           /\ cur' = IF r.raised # None THEN cur ELSE [cur EXCEPT !.i = cur.i + 1]
    /\ log' = Append(log, <<"parse_receiver", iterrows(ibt_df)[cur.i]>>)
    /\ UNCHANGED <<ibt_df, basins_gdf, occ_df, results, stdout, output_file,
                   call, ret>>

\* line 48 and lines 135-140: parse_ibt_coordinates returns, main's loop starts
ParseReturn ==
    /\ pc = "parse_sender"
    /\ cur.i > Len(ibt_df)
    /\ pc' = "find_sender"
    /\ cur' = [cur EXCEPT !.i = 1]
    /\ UNCHANGED <<ibt_df, basins_gdf, occ_df, projects, results, stdout,
                   output_file, log, call, ret>>

\* lines 141-146
FindSender ==
    /\ pc = "find_sender"
    /\ cur.i <= Len(projects)
    /\ LET r == find_basin_by_coordinates(Project.sender_lat, Project.sender_lon,
                                          basins_gdf)
       IN  /\ pc' = IF r.raised # None THEN "aborted" ELSE "find_receiver"
           /\ cur' = IF r.raised # None THEN cur
                     ELSE [cur EXCEPT !.sender_basin = r.value]
           /\ stdout' = stdout \o r.warning
    /\ log' = Append(log, <<"find_sender", Project.input_pos>>)
    /\ UNCHANGED <<ibt_df, basins_gdf, occ_df, projects, results, output_file,
                   call, ret>>

\* lines 149-151
FindReceiver ==
    /\ pc = "find_receiver"
    /\ LET r == find_basin_by_coordinates(Project.receiver_lat,
                                          Project.receiver_lon, basins_gdf)
       IN  /\ pc' = IF r.raised # None THEN "aborted" ELSE "diversity_sender"
           /\ cur' = IF r.raised # None THEN cur
                     ELSE [cur EXCEPT !.receiver_basin = r.value]
           /\ stdout' = stdout \o r.warning
    /\ log' = Append(log, <<"find_receiver", Project.input_pos>>)
    /\ UNCHANGED <<ibt_df, basins_gdf, occ_df, projects, results, output_file,
                   call, ret>>

\* line 154
DiversitySender ==
    /\ pc = "diversity_sender"
    /\ pc' = "diversity_receiver"
    /\ cur' = [cur EXCEPT !.sender_diversity =
                              get_basin_fish_diversity(cur.sender_basin, occ_df)]
    /\ log' = Append(log, <<"diversity_sender", Project.input_pos>>)
    /\ UNCHANGED <<ibt_df, basins_gdf, occ_df, projects, results, stdout,
                   output_file, call, ret>>

\* line 155
DiversityReceiver ==
    /\ pc = "diversity_receiver"
    /\ pc' = "metrics"
    /\ cur' = [cur EXCEPT !.receiver_diversity =
                              get_basin_fish_diversity(cur.receiver_basin, occ_df)]
    /\ log' = Append(log, <<"diversity_receiver", Project.input_pos>>)
    /\ UNCHANGED <<ibt_df, basins_gdf, occ_df, projects, results, stdout,
                   output_file, call, ret>>

\* lines 157-168
Metrics ==
    /\ pc = "metrics"
    /\ pc' = "assemble"
    /\ LET sender_species == set(cur.sender_diversity.species_list)
           receiver_species == set(cur.receiver_diversity.species_list)
       IN  cur' = [cur EXCEPT
                     !.jaccard_similarity =
                         jaccard_similarity(sender_species, receiver_species),
                     !.jaccard_dissimilarity =
                         jaccard_dissimilarity(sender_species, receiver_species)]
    /\ log' = Append(log, <<"metrics", Project.input_pos>>)
    /\ UNCHANGED <<ibt_df, basins_gdf, occ_df, projects, results, stdout,
                   output_file, call, ret>>

\* lines 170-193
Assemble ==
    /\ pc = "assemble"
    /\ pc' = "find_sender"
    /\ results' = Append(results, result_of(Project, cur))
    /\ cur' = [cur EXCEPT !.i = cur.i + 1]
    /\ log' = Append(log, <<"assemble", Project.input_pos>>)
    /\ UNCHANGED <<ibt_df, basins_gdf, occ_df, projects, stdout, output_file,
                   call, ret>>

\* lines 195-208: the loop is over, the table is written and summarised
Save ==
    /\ pc = "find_sender"
    /\ cur.i > Len(projects)
    /\ pc' = "done"
    /\ output_file' = [written |-> TRUE, rows |-> results]
    /\ UNCHANGED <<ibt_df, basins_gdf, occ_df, projects, cur, results, stdout,
                   log, call, ret>>

Next ==
    \/ ParseSender
    \/ ParseReceiver
    \/ ParseReturn
    \/ FindSender
    \/ FindReceiver
    \/ DiversitySender
    \/ DiversityReceiver
    \/ Metrics
    \/ Assemble
    \/ Save

Spec == Init /\ [][Next]_vars

-----------------------------------------------------------------------------
(* Stand-alone calls of the three functions, over all the bounded inputs *)

\* main is not running
Idle ==
    /\ ibt_df = <<>>
    /\ basins_gdf = <<>>
    /\ occ_df = <<>>
    /\ pc = "idle"
    /\ projects = <<>>
    /\ cur = NoLocals
    /\ results = <<>>
    /\ stdout = <<>>
    /\ output_file = [written |-> FALSE, rows |-> <<>>]
    /\ log = <<>>

Outcome(r) ==
    [status |-> IF r.raised # None THEN "raised" ELSE "returned", value |-> r]

InitParse ==
    /\ Idle
    /\ call \in {[fn |-> "parse_coordinate_string", coord_str |-> s] :
                    s \in CoordStrings}
    /\ ret = Pending

CallParse ==
    /\ call.fn = "parse_coordinate_string"
    /\ ret.status = "pending"
    /\ ret' = Outcome(parse_coordinate_string(call.coord_str))
    /\ UNCHANGED <<ibt_df, basins_gdf, occ_df, pc, projects, cur, results,
                   stdout, output_file, log, call>>

SpecParse == InitParse /\ [][CallParse]_vars

InitLocate ==
    /\ Idle
    /\ call \in {[fn |-> "find_basin_by_coordinates", lat |-> lat * Scale,
                  lon |-> lon * Scale, gdf |-> gdf] :
                    lat \in PointLats, lon \in PointLons,
                    gdf \in SeqsUpTo(BasinRows, MaxBasins)}
    /\ ret = Pending

CallLocate ==
    /\ call.fn = "find_basin_by_coordinates"
    /\ ret.status = "pending"
    /\ ret' = Outcome(find_basin_by_coordinates(call.lat, call.lon, call.gdf))
    /\ UNCHANGED <<ibt_df, basins_gdf, occ_df, pc, projects, cur, results,
                   stdout, output_file, log, call>>

SpecLocate == InitLocate /\ [][CallLocate]_vars

InitDiversity ==
    /\ Idle
    /\ call \in {[fn |-> "get_basin_fish_diversity", basin_name |-> "Ganges",
                  occ |-> occ] : occ \in SeqsUpTo(OccRows, MaxOcc)}
    /\ ret = Pending

CallDiversity ==
    /\ call.fn = "get_basin_fish_diversity"
    /\ ret.status = "pending"
    /\ ret' = [status |-> "returned",
               value |-> get_basin_fish_diversity(call.basin_name, call.occ)]
    /\ UNCHANGED <<ibt_df, basins_gdf, occ_df, pc, projects, cur, results,
                   stdout, output_file, log, call>>

SpecDiversity == InitDiversity /\ [][CallDiversity]_vars

-----------------------------------------------------------------------------
(* Claims about the result rows of the pipeline, under Spec *)

\* the species-name values of the occurrence records of a basin
SpeciesOf(basin) ==
    {occ_df[k].SpeciesName : k \in {m \in 1..Len(occ_df) : occ_df[m].BasinName = basin}}

\* two exact ratios sum to one
SumIsOne(p, q) == p.num * q.den + q.num * p.den = p.den * q.den

\* C1: in every result row, jaccard_similarity + jaccard_dissimilarity = 1 when
\* the union of the sender's and the receiver's species sets is non-empty, and
\* both are 0 when both sets are empty.
C1_JaccardIdentity ==
    \A k \in 1..Len(results) :
        LET r == results[k]
            S == SpeciesOf(r.sender_basin)
            R == SpeciesOf(r.receiver_basin)
        IN  /\ r.jaccard_similarity.den > 0
            /\ r.jaccard_dissimilarity.den > 0
            /\ (S \cup R # {}) =>
                   SumIsOne(r.jaccard_similarity, r.jaccard_dissimilarity)
            /\ (S = {} /\ R = {}) =>
                   /\ r.jaccard_similarity.num = 0
                   /\ r.jaccard_dissimilarity.num = 0

\* a run whose table holds a row of two empty inventories (0 and 0) and a row
\* of a non-empty union (similarity 0, dissimilarity 1)
C1_Witness ==
    /\ pc = "done"
    /\ \E a, b \in 1..Len(output_file.rows) :
        /\ SpeciesOf(results[a].sender_basin) = {}
        /\ SpeciesOf(results[a].receiver_basin) = {}
        /\ results[a].jaccard_dissimilarity.num = 0
        /\ SpeciesOf(results[b].sender_basin) # {}
        /\ results[b].jaccard_dissimilarity.num = results[b].jaccard_dissimilarity.den

\* C2: every result row has shared_species_count = |sender /\ receiver| and
\* total_unique_species = |sender \/ receiver|; when the union is non-empty,
\* jaccard_similarity = shared / union and jaccard_dissimilarity = 1 - similarity.
C2_SharedUnionAndRatio ==
    \A k \in 1..Len(results) :
        LET r == results[k]
            S == SpeciesOf(r.sender_basin)
            R == SpeciesOf(r.receiver_basin)
            sim == r.jaccard_similarity
            dis == r.jaccard_dissimilarity
        IN  /\ r.shared_species_count = Cardinality(S \cap R)
            /\ r.total_unique_species = Cardinality(S \cup R)
            /\ (S \cup R # {}) =>
                   /\ sim.den > 0 /\ dis.den > 0
                   /\ sim.num * r.total_unique_species = r.shared_species_count * sim.den
                   /\ dis.num * sim.den = (sim.den - sim.num) * dis.den

\* the end-to-end scenario: sender {A, B, C}, receiver {B, C, D}
C2_Witness ==
    \E k \in 1..Len(results) :
        /\ SpeciesOf(results[k].sender_basin) = {"A", "B", "C"}
        /\ SpeciesOf(results[k].receiver_basin) = {"B", "C", "D"}
        /\ results[k].shared_species_count = 2
        /\ results[k].total_unique_species = 4
        /\ results[k].jaccard_similarity = Ratio(2, 4)
        /\ results[k].jaccard_dissimilarity = Ratio(2, 4)
        /\ results[k].sender_species_count = 3
        /\ results[k].receiver_species_count = 3

-----------------------------------------------------------------------------
(* Claims about the run of the pipeline, under Spec *)

\* C9: a run that completes over n projects writes a table of exactly n rows,
\* the i-th row carrying the rank, basin-pair label, project name and design
\* flow of the i-th input project.
C9_OneRowPerProjectInOrder ==
    pc = "done" =>
        /\ output_file.written
        /\ Len(output_file.rows) = Len(ibt_df)
        /\ \A k \in 1..Len(ibt_df) :
            /\ output_file.rows[k].rank = ibt_df[k].rank
            /\ output_file.rows[k].basin_pair = ibt_df[k].basin_pair
            /\ output_file.rows[k].project = ibt_df[k].project
            /\ output_file.rows[k].design_flow = ibt_df[k].design_flow

\* a completed run over two projects whose ranks are not ascending
C9_Witness ==
    /\ pc = "done"
    /\ Len(ibt_df) = 2
    /\ ibt_df[1].rank = 2
    /\ ibt_df[2].rank = 1
    /\ output_file.rows[1].rank = 2
    /\ output_file.rows[2].rank = 1

ParseStages == {"parse_sender", "parse_receiver"}

ResolveStages ==
    {"find_sender", "find_receiver", "diversity_sender", "diversity_receiver",
     "metrics", "assemble"}

\* C10 as claimed: every stage of a project, the parsing of its coordinates
\* included, runs before any stage of the project that follows it in the input.
C10_EachProjectFullyResolvedBeforeNext ==
    \A a, b \in 1..Len(log) : a < b => log[a][2] <= log[b][2]

\* C10 as amended: the coordinates of all the projects are parsed first, in
\* input order, before any basin lookup; the other stages (both lookups, both
\* aggregations, the metrics, the row assembly) then run project by project in
\* input order, each project's finishing before the next project's start.
C10_ParseAllThenResolveEachInOrder ==
    \A a, b \in 1..Len(log) :
        a < b =>
            /\ log[b][1] \in ParseStages => log[a][1] \in ParseStages
            /\ (log[a][1] \in ParseStages) = (log[b][1] \in ParseStages)
                   => log[a][2] <= log[b][2]

\* a completed run over two projects: both were parsed, then both resolved
C10_Witness ==
    /\ pc = "done"
    /\ Len(results) = 2
    /\ \E a, b \in 1..Len(log) :
        /\ a < b
        /\ log[a] = <<"parse_receiver", 2>>
        /\ log[b] = <<"find_sender", 1>>

-----------------------------------------------------------------------------
(* Claims about find_basin_by_coordinates, under SpecLocate *)

\* the polygon at position k of the call's basin set contains the call's point
Inside(k) == contains(call.gdf[k].geometry, [x |-> call.lon, y |-> call.lat])

\* the planar distance (squared) of that polygon to the call's point
DistanceTo(k) == distance(call.gdf[k].geometry, [x |-> call.lon, y |-> call.lat])

\* C3: when at least one polygon contains the point, the call returns the
\* identifier of the first containing polygon in dataset order (hence of the
\* only one, when exactly one contains it).
C3_FirstContainingPolygon ==
    ret.status # "pending" =>
        \A k \in 1..Len(call.gdf) :
            (Inside(k) /\ \A m \in 1..(k - 1) : ~Inside(m)) =>
                /\ ret.status = "returned"
                /\ ret.value.value = call.gdf[k].BasinName

\* two polygons of different names contain the point: the first one's name
C3_Witness ==
    /\ ret.status = "returned"
    /\ Len(call.gdf) = 2
    /\ Inside(1) /\ Inside(2)
    /\ call.gdf[1].BasinName # call.gdf[2].BasinName
    /\ ret.value.value = call.gdf[1].BasinName

-----------------------------------------------------------------------------
(* Claims about parse_coordinate_string, under SpecParse *)

\* a well-formed decimal number: digits, at most one point, a digit first
IsDecimal(w) ==
    /\ Len(w) >= 1
    /\ IsDigit(w[1])
    /\ \A k \in 1..Len(w) : IsDigit(w[k]) \/ w[k] = "."
    /\ Cardinality({k \in 1..Len(w) : w[k] = "."}) <= 1

\* the word (run of characters other than white space) that ends at e
WordEndingAt(s, e) ==
    LET start == CHOOSE a \in 1..e :
                    /\ \A m \in a..e : ~IsSpace(s[m])
                    /\ a = 1 \/ IsSpace(s[a - 1])
    IN  SubSeq(s, start, e)

\* the text holds a token of one of the hemispheres whose magnitude, the word
\* before the degree sign, is a well-formed decimal number
HasWellFormedToken(s, hemis) ==
    \E d \in 2..(Len(s) - 1) :
        /\ s[d] = Deg
        /\ s[d + 1] \in hemis
        /\ \E e \in 1..(d - 1) :
            /\ ~IsSpace(s[e])
            /\ \A m \in (e + 1)..(d - 1) : IsSpace(s[m])
            /\ IsDecimal(WordEndingAt(s, e))

\* C6: the call fails, returning no coordinate, for every text in which the
\* latitude token or the longitude token is absent or malformed.
C6_ErrorOnAbsentOrMalformedToken ==
    (ret.status # "pending"
       /\ ~(/\ HasWellFormedToken(call.coord_str, {"N", "S"})
            /\ HasWellFormedToken(call.coord_str, {"E", "W"})))
        => ret.status = "raised"

\* C7: every coordinate the call returns has its latitude in [-90, 90] and
\* its longitude in [-180, 180].
C7_ReturnedCoordinateInRange ==
    ret.status = "returned" =>
        /\ 0 - 90 * Scale <= ret.value.lat /\ ret.value.lat <= 90 * Scale
        /\ 0 - 180 * Scale <= ret.value.lon /\ ret.value.lon <= 180 * Scale

-----------------------------------------------------------------------------
(* Claims about get_basin_fish_diversity, under SpecDiversity *)

\* the species-name values of the records of the call's table whose basin
\* field equals the call's identifier
MatchingSpecies ==
    {call.occ[k].SpeciesName :
        k \in {m \in 1..Len(call.occ) : call.occ[m].BasinName = call.basin_name}}

\* C8: the returned inventory has no duplicates and is exactly the set of
\* species-name values of the matching records, whatever their status;
\* species_count is the cardinality of the returned inventory, a missing
\* species name included; with no matching record the counts are 0 and the
\* inventory is empty.
C8_InventoryAndItsCount ==
    ret.status = "returned" =>
        LET inv == ret.value.species_list
        IN  /\ \A a, b \in 1..Len(inv) : a # b => inv[a] # inv[b]
            /\ Range(inv) = MatchingSpecies
            /\ ret.value.species_count = Cardinality(Range(inv))
            /\ MatchingSpecies = {} =>
                /\ ret.value.species_count = 0
                /\ ret.value.native_species_count = 0
                /\ ret.value.exotic_species_count = 0
                /\ inv = <<>>

-----------------------------------------------------------------------------
(* Claim about errors in the run of the pipeline, under Spec *)

\* the stage of a log entry raises on its input: a coordinate text that does
\* not parse, or a lookup in an empty polygon set
Raises(e) ==
    CASE e[1] = "parse_sender" ->
            parse_coordinate_string(ibt_df[e[2]].sender_coords).raised # None
      [] e[1] = "parse_receiver" ->
            parse_coordinate_string(ibt_df[e[2]].receiver_coords).raised # None
      [] e[1] \in {"find_sender", "find_receiver"} -> basins_gdf = <<>>
      [] OTHER -> FALSE

\* an error ends the run where it is raised, and only a run that assembled the
\* row of the last project has written the table
AbortedOrComplete ==
    /\ \A a \in 1..Len(log) :
        Raises(log[a]) => (a = Len(log) /\ pc = "aborted")
    /\ pc = "aborted" =>
        /\ Len(log) > 0 /\ Raises(log[Len(log)])
        /\ ~output_file.written /\ output_file.rows = <<>>
    /\ output_file.written =>
        /\ pc = "done"
        /\ output_file.rows = results
        /\ Len(results) = Len(ibt_df)
        /\ Len(ibt_df) > 0 => log[Len(log)] = <<"assemble", Len(ibt_df)>>

\* nothing runs after an error, and the table is written in one step, the
\* last of a run
NothingAfterAbortOneWrite ==
    /\ pc # "aborted"
    /\ ~output_file.written
    /\ output_file' # output_file => (output_file'.written /\ pc' = "done")

\* C11: a run either completes or aborts on the first parse or lookup error:
\* the error is not swallowed or retried, no stage of any project runs after
\* it, and the table is written only once, after the row of the last project
\* was assembled, so an aborted run writes no table.
C11_CompleteOrAbortOnFirstError ==
    []AbortedOrComplete /\ [][NothingAfterAbortOneWrite]_vars

\* a run of two projects aborted by the receiver text of the first one: the
\* second project was never touched and nothing was written
C11_Witness ==
    /\ pc = "aborted"
    /\ Len(ibt_df) = 2
    /\ log = <<<<"parse_sender", 1>>, <<"parse_receiver", 1>>>>
    /\ projects = <<>>
    /\ ~output_file.written

=============================================================================
